---------------------------- MODULE Spec2Model ----------------------------
(***************************************************************************)
(* A model of the containers of CppCustomContainers:                       *)
(*   - CircularBuffer<T, SIZE>   (include/circular_buffer.h)               *)
(*   - Set<T, minEL, maxEL, UT>  (include/set.h)                           *)
(* Every member function is a pure operator from the object's state (and   *)
(* its arguments) to the new state and the returned values; one action per *)
(* member function applies it to the object held in the variables.         *)
(***************************************************************************)
EXTENDS Integers, Sequences, FiniteSets, TLC

\* Largest template argument SIZE the model instantiates CircularBuffer with.
MaxCapacity == 3
\* The element type T is modelled as 0..MaxVal.
MaxVal == 1

Values == 0 .. MaxVal

\* "return 0" / "return -1" of Push, Pop and Peek.
Success == 0
Failure == -1

\* A T* or T& that points at no slot of the buffer.
NULL == 0 - 1

\* Set's underlying type UT is modelled as 0 .. UTMax, and T holds its values.
UTMax == 3

UT == 0 .. UTMax

\* static_cast<UT>(x) and static_cast<T>(x) of an int x: the value modulo
\* the size of the type (UT is narrower than int, so the arithmetic on
\* promoted values itself does not wrap).
ToUT(x) == x % (UTMax + 1)

\* unsigned long is modelled as ULongBits bits wide.
ULongBits == 2

\* How a call ended: it returned (NoThrow), it raised the std:: exception
\* named, or it loops for ever (NeverReturns).
NoThrow == "none"

NeverReturns == "never returns"

NoIterator == [position_ |-> NULL, set_ |-> <<>>]

VARIABLES
    SIZE,       \* template argument SIZE of the CircularBuffer
    buffer_,    \* std::array<T, SIZE> buffer_
    head_,      \* size_t head_
    tail_,      \* size_t tail_
    full_,      \* bool full_
    out,        \* the caller's T that Pop(T*) is given the address of
    ptr,        \* the caller's T* that Peek(T**) is given the address of,
                \* as the index of the slot it points at (or NULL)
    op,         \* the member function called last
    arg,        \* its argument (data), 0 when it takes none
    ret,        \* the int it returned, Success when it returns no int
    ref,        \* the slot the T& it returned refers to, NULL when none
    visited,    \* the slots a traversal begin()..end() of the buffer
                \* dereferenced; the elements one of the Set yielded
    old,        \* the object (and out, ptr) as before the last call
    minEL,      \* template argument minEL of the Set
    maxEL,      \* template argument maxEL of the Set
    data_,      \* std::bitset<maxEL - minEL + 1> data_, bit -> BOOLEAN
    thrown,     \* how the last call on the Set ended: NoThrow, the
                \* exception it raised, or NeverReturns
    rgb,        \* a ColorRgb: red, green, blue
    hsv,        \* a ColorHsv: hue_, saturation_, value_
    ct,         \* a ColorTemp: kelvin_
    lum,        \* what GetLuminance() returned, NULL when the last call
                \* was another
    iter        \* the caller's Set::Iterator: position_ and set_;
                \* NoIterator before the caller has one

\* The buffer and its caller.
cbVars == <<SIZE, buffer_, head_, tail_, full_, out, ptr, ret, ref, visited>>

\* The set.
setVars == <<minEL, maxEL, data_, thrown>>

\* The three colors and their caller.
colorVars == <<rgb, hsv, ct, lum>>

vars == <<cbVars, setVars, colorVars, iter, op, arg, old>>

----------------------------------------------------------------------------
(* CircularBuffer: the object as a record, and its member functions.       *)

This ==
    [buffer_ |-> buffer_, head_ |-> head_, tail_ |-> tail_, full_ |-> full_]

\* if (++p == SIZE) p = 0;
Wrap(p) == IF p + 1 = SIZE THEN 0 ELSE p + 1

Full(this) == this.full_

Empty(this) == (~this.full_) /\ (this.tail_ = this.head_)

\* Clear() with "full_ = false" left out.
Clear_KeepFull(this) == [this EXCEPT !.tail_ = 0, !.head_ = 0]

Clear(this) == [this EXCEPT !.full_ = FALSE, !.tail_ = 0, !.head_ = 0]

MaxSize(this) == SIZE

Size(this) ==
    IF this.full_ THEN SIZE
    ELSE IF this.tail_ >= this.head_ THEN this.tail_ - this.head_
    ELSE SIZE + this.tail_ - this.head_

\* advance_pointer_() without the "if (full_) ++head_" step.
advance_pointer_KeepHead(this) ==
    LET t == Wrap(this.tail_)
    IN  [this EXCEPT !.tail_ = t, !.full_ = (t = this.head_)]

advance_pointer_(this) ==
    LET h == IF this.full_ THEN Wrap(this.head_) ELSE this.head_
        t == Wrap(this.tail_)
    IN  [this EXCEPT !.head_ = h, !.tail_ = t, !.full_ = (t = h)]

\* retreat_pointer_() with "full_ = false" left out.
retreat_pointer_KeepFull(this) == [this EXCEPT !.head_ = Wrap(this.head_)]

retreat_pointer_(this) ==
    [this EXCEPT !.full_ = FALSE, !.head_ = Wrap(this.head_)]

\* Push() without the "if (full_) return -1" check.
Push_NoFullCheck(this, data) ==
    [this |-> advance_pointer_([this EXCEPT !.buffer_[this.tail_] = data]),
     ret  |-> Success]

\* int Push(const T& data)
Push(this, data) ==
    IF this.full_
    THEN [this |-> this, ret |-> Failure]
    ELSE [this |-> advance_pointer_(
                       [this EXCEPT !.buffer_[this.tail_] = data]),
          ret  |-> Success]

\* PushForce() that drops the oldest element whether or not the buffer is
\* full.
PushForce_AlwaysDrop(this, data) ==
    LET w == [this EXCEPT !.buffer_[this.tail_] = data]
        t == Wrap(w.tail_)
        h == Wrap(w.head_)
    IN  [w EXCEPT !.head_ = h, !.tail_ = t, !.full_ = (t = h)]

\* void PushForce(const T& data)
PushForce(this, data) ==
    advance_pointer_([this EXCEPT !.buffer_[this.tail_] = data])

\* Pop(T*) without the "if (Empty()) return -1" check.
Pop_Unchecked(this, data) ==
    [this |-> retreat_pointer_(this), ret |-> Success,
     data |-> this.buffer_[this.head_]]

\* Pop(T*) reading the slot after head_ has moved.
Pop_ReadAfterRetreat(this, data) ==
    IF Empty(this)
    THEN [this |-> this, ret |-> Failure, data |-> data]
    ELSE [this |-> retreat_pointer_(this), ret |-> Success,
          data |-> this.buffer_[retreat_pointer_(this).head_]]

\* int Pop(T* data); data is the value of *data before the call.
Pop(this, data) ==
    IF Empty(this)
    THEN [this |-> this, ret |-> Failure, data |-> data]
    ELSE [this |-> retreat_pointer_(this), ret |-> Success,
          data |-> this.buffer_[this.head_]]

\* Pop() without the "if (Empty()) return -1" check.
PopDiscard_NoEmptyCheck(this) ==
    [this |-> retreat_pointer_(this), ret |-> Success]

\* int Pop()
PopDiscard(this) ==
    IF Empty(this)
    THEN [this |-> this, ret |-> Failure]
    ELSE [this |-> retreat_pointer_(this), ret |-> Success]

\* DirectPop() that leaves an empty buffer alone.
DirectPop_Checked(this) ==
    IF Empty(this)
    THEN [this |-> this, ref |-> this.head_]
    ELSE [this |-> retreat_pointer_(this), ref |-> this.head_]

\* const T& DirectPop(); the reference is bound before head_ moves.
DirectPop(this) ==
    [this |-> retreat_pointer_(this), ref |-> this.head_]

\* Peek() handing out the slot at tail_.
Peek_Tail(this, data) ==
    IF Empty(this)
    THEN [ret |-> Failure, data |-> data]
    ELSE [ret |-> Success, data |-> this.tail_]

\* int Peek(T** data); data is the value of *data before the call.
Peek(this, data) ==
    IF Empty(this)
    THEN [ret |-> Failure, data |-> data]
    ELSE [ret |-> Success, data |-> this.head_]

\* T& Front()
Front(this) == this.head_

(* CircularBuffer::Iterator: position_ and is_head_ (buffer_ is a reference *)
(* to the buffer's array, which the model reads from the object).           *)
Iterator(position, is_tail) == [position_ |-> position, is_head_ |-> is_tail]

IteratorInc(it) == [position_ |-> Wrap(it.position_), is_head_ |-> FALSE]

IteratorEq(a, b) == (a.position_ = b.position_) /\ (a.is_head_ = b.is_head_)

IteratorNe(a, b) == (a.position_ # b.position_) \/ (a.is_head_ # b.is_head_)

\* begin() without the flag that tells it from end() on a full buffer.
begin_NoFlag(this) == Iterator(this.head_, FALSE)

begin(this) == Iterator(this.head_, TRUE)

end(this) == Iterator(this.tail_, Empty(this))

\* for (it = from; it != to; ++it) visit it.position_; at most fuel steps.
RECURSIVE Walk(_, _, _)
Walk(it, to, fuel) ==
    IF fuel = 0 \/ ~IteratorNe(it, to) THEN <<>>
    ELSE <<it.position_>> \o Walk(IteratorInc(it), to, fuel - 1)

\* for (auto it = b.begin(); it != b.end(); ++it): the slots dereferenced.
\* SIZE + 1 steps are allowed, so a traversal that would visit more than SIZE
\* slots shows as one.
Traverse(this) == Walk(begin(this), end(this), SIZE + 1)

----------------------------------------------------------------------------
(* The calls.                                                              *)

Snapshot == [this |-> This, out |-> out, ptr |-> ptr]

SetThis(this) ==
    /\ buffer_' = this.buffer_
    /\ head_'   = this.head_
    /\ tail_'   = this.tail_
    /\ full_'   = this.full_

Called(name, a, r, rf, vis) ==
    /\ op' = name
    /\ arg' = a
    /\ ret' = r
    /\ ref' = rf
    /\ visited' = vis
    /\ old' = Snapshot
    /\ UNCHANGED <<SIZE, setVars, colorVars, iter>>

CallPush ==
    \E data \in Values :
        LET r == Push(This, data) IN
        /\ SetThis(r.this)
        /\ Called("Push", data, r.ret, NULL, <<>>)
        /\ UNCHANGED <<out, ptr>>

CallPushForce ==
    \E data \in Values :
        /\ SetThis(PushForce(This, data))
        /\ Called("PushForce", data, Success, NULL, <<>>)
        /\ UNCHANGED <<out, ptr>>

CallPop ==
    LET r == Pop(This, out) IN
    /\ SetThis(r.this)
    /\ out' = r.data
    /\ Called("Pop", 0, r.ret, NULL, <<>>)
    /\ UNCHANGED ptr

CallPopDiscard ==
    LET r == PopDiscard(This) IN
    /\ SetThis(r.this)
    /\ Called("PopDiscard", 0, r.ret, NULL, <<>>)
    /\ UNCHANGED <<out, ptr>>

CallDirectPop ==
    LET r == DirectPop(This) IN
    /\ SetThis(r.this)
    /\ Called("DirectPop", 0, Success, r.ref, <<>>)
    /\ UNCHANGED <<out, ptr>>

CallPeek ==
    LET r == Peek(This, ptr) IN
    /\ ptr' = r.data
    /\ Called("Peek", 0, r.ret, NULL, <<>>)
    /\ UNCHANGED <<buffer_, head_, tail_, full_, out>>

CallFront ==
    /\ Called("Front", 0, Success, Front(This), <<>>)
    /\ UNCHANGED <<buffer_, head_, tail_, full_, out, ptr>>

CallClear ==
    /\ SetThis(Clear(This))
    /\ Called("Clear", 0, Success, NULL, <<>>)
    /\ UNCHANGED <<out, ptr>>

CallTraverse ==
    /\ Called("Traverse", 0, Success, NULL, Traverse(This))
    /\ UNCHANGED <<buffer_, head_, tail_, full_, out, ptr>>

\* CircularBuffer<T, SIZE> b; the array is not initialised, nor is the
\* caller's T; the caller's T* starts null.
InitBuffer ==
    /\ SIZE \in 1 .. MaxCapacity
    /\ buffer_ \in [0 .. SIZE - 1 -> Values]
    /\ head_ = 0
    /\ tail_ = 0
    /\ full_ = FALSE
    /\ out \in Values
    /\ ptr = NULL
    /\ op = "new"
    /\ arg = 0
    /\ ret = Success
    /\ ref = NULL
    /\ visited = <<>>
    /\ old = Snapshot
    /\ minEL = 0
    /\ maxEL = 0
    /\ data_ = [i \in 0 .. 0 |-> FALSE]
    /\ thrown = NoThrow
    /\ rgb = [red |-> 0, green |-> 0, blue |-> 0]
    /\ hsv = [hue_ |-> 0, saturation_ |-> 0, value_ |-> 0]
    /\ ct = [kelvin_ |-> 2700]
    /\ lum = NULL
    /\ iter = NoIterator

NextBuffer ==
    \/ CallPush
    \/ CallPushForce
    \/ CallPop
    \/ CallPopDiscard
    \/ CallDirectPop
    \/ CallPeek
    \/ CallFront
    \/ CallClear
    \/ CallTraverse

SpecBuffer == InitBuffer /\ [][NextBuffer]_vars


----------------------------------------------------------------------------
(* Set: the object is its bitset data_; member functions that can reach a  *)
(* bitset call that throws return the exception beside their result.       *)

\* std::bitset<N>::set(pos, val), reset(pos), test(pos): std::out_of_range
\* when pos >= N.
bitset_set(d, pos, val) ==
    IF pos \in DOMAIN d
    THEN [this |-> [d EXCEPT ![pos] = val], thrown |-> NoThrow]
    ELSE [this |-> d, thrown |-> "out_of_range"]

bitset_reset(d, pos) == bitset_set(d, pos, FALSE)

bitset_test(d, pos) ==
    IF pos \in DOMAIN d
    THEN [ret |-> d[pos], thrown |-> NoThrow]
    ELSE [ret |-> FALSE, thrown |-> "out_of_range"]

\* static_cast<std::size_t>(static_cast<UT>(value) - static_cast<UT>(minEL));
\* a negative difference converts to a position past every bit.
BitIndex(value) == value - minEL

\* constexpr std::size_t Capacity() const
Set_Capacity == maxEL - minEL + 1

\* Set() = default: every bit clear.
Set_Default == [i \in 0 .. Set_Capacity - 1 |-> FALSE]

\* Set &operator=(const Set &rhs), and the copy constructor
Set_OperatorAssign(this, rhs) == rhs

\* void operator+=(const Set &value)
Set_OperatorPlusEq(this, value) ==
    [i \in DOMAIN this |-> this[i] \/ value[i]]

\* void operator-=(const Set &value)
Set_OperatorMinusEq(this, value) ==
    [i \in DOMAIN this |-> this[i] /\ ~value[i]]

\* operator*= as the exclusive or its comment speaks of.
Set_OperatorTimesEq_Xor(this, value) ==
    [i \in DOMAIN this |-> this[i] # value[i]]

\* void operator*=(const Set &value)
Set_OperatorTimesEq(this, value) ==
    [i \in DOMAIN this |-> this[i] /\ value[i]]

\* Set &set(T value, bool state) with the state ignored.
Set_set_IgnoreState(this, value, state) ==
    IF value < minEL \/ maxEL < value
    THEN [this |-> this, thrown |-> NoThrow]
    ELSE bitset_set(this, BitIndex(value), TRUE)

\* Set &set(T value, bool state)
Set_set(this, value, state) ==
    IF value < minEL \/ maxEL < value
    THEN [this |-> this, thrown |-> NoThrow]
    ELSE bitset_set(this, BitIndex(value), state)

\* Set &operator<<(T value)
Set_OperatorShl(this, value) ==
    IF value < minEL \/ maxEL < value
    THEN [this |-> this, thrown |-> NoThrow]
    ELSE bitset_set(this, BitIndex(value), TRUE)

\* Set &Insert(T value)
Set_Insert(this, value) == Set_OperatorShl(this, value)

\* Set &operator>>(T value) calling data_.reset() with no position, which
\* clears every bit.
Set_OperatorShr_ResetAll(this, value) ==
    IF value < minEL \/ maxEL < value
    THEN [this |-> this, thrown |-> NoThrow]
    ELSE [this |-> [i \in DOMAIN this |-> FALSE], thrown |-> NoThrow]

\* Set &operator>>(T value) checking only the upper end of the range.
Set_OperatorShr_NoLowerCheck(this, value) ==
    IF maxEL < value
    THEN [this |-> this, thrown |-> NoThrow]
    ELSE bitset_reset(this, BitIndex(value))

\* Set &operator>>(T value)
Set_OperatorShr(this, value) ==
    IF value < minEL \/ maxEL < value
    THEN [this |-> this, thrown |-> NoThrow]
    ELSE bitset_reset(this, BitIndex(value))

\* Set &Erase(T value)
Set_Erase(this, value) == Set_OperatorShr(this, value)

\* bool operator[](T value) const
Set_OperatorIndex(this, value) ==
    IF value < minEL \/ maxEL < value
    THEN [ret |-> FALSE, thrown |-> NoThrow]
    ELSE bitset_test(this, BitIndex(value))

\* bool Contains(T value) const
Set_Contains(this, value) == Set_OperatorIndex(this, value)

\* std::size_t Size() const: the loop over i < Capacity(), from bit i on.
RECURSIVE Set_SizeFrom(_, _)
Set_SizeFrom(this, i) ==
    IF ~(i < Set_Capacity) THEN [ret |-> 0, thrown |-> NoThrow]
    ELSE LET c == Set_OperatorIndex(this, minEL + i) IN
         IF c.thrown # NoThrow THEN [ret |-> 0, thrown |-> c.thrown]
         ELSE LET rest == Set_SizeFrom(this, i + 1) IN
              [ret    |-> rest.ret + (IF c.ret THEN 1 ELSE 0),
               thrown |-> rest.thrown]

\* Size() with the loop started at i = 1.
Set_Size_FromOne(this) == Set_SizeFrom(this, 1)

Set_Size(this) == Set_SizeFrom(this, 0)

\* bool operator==(const Set &other) const
Set_OperatorEq(this, other) == this = other

\* std::bitset<N>::to_ulong(): std::overflow_error when a bit that does not
\* fit unsigned long is set.
RECURSIVE bitset_value(_, _)
bitset_value(d, i) ==
    IF i \notin DOMAIN d THEN 0
    ELSE (IF d[i] THEN 1 ELSE 0) + 2 * bitset_value(d, i + 1)

bitset_to_ulong(d) ==
    IF \E i \in DOMAIN d : i >= ULongBits /\ d[i]
    THEN [ret |-> 0, thrown |-> "overflow_error"]
    ELSE [ret |-> bitset_value(d, 0), thrown |-> NoThrow]

\* unsigned long Raw() const
Set_Raw(this) == bitset_to_ulong(this)

\* void Clear(): data_ = 0
Set_Clear(this) == [i \in DOMAIN this |-> FALSE]

\* T GetNext_(const T &element) const: the loop
\*   for (UT i = ...; i < Capacity(); ++i) if (Contains(minEL + i)) return it;
\* from i on, and the return after it. ++i wraps in UT. The set does not
\* change, so once the loop has gone round left + 1 times with left = the
\* number of values of UT, i has repeated and the loop never ends.
RECURSIVE Set_GetNextFrom(_, _, _)
Set_GetNextFrom(this, i, left) ==
    IF ~(i < Set_Capacity)
    THEN [ret |-> ToUT(maxEL + 1), thrown |-> NoThrow]
    ELSE IF Set_Contains(this, ToUT(minEL + i)).ret
    THEN [ret |-> ToUT(minEL + i), thrown |-> NoThrow]
    ELSE IF left = 0
    THEN [ret |-> ToUT(maxEL + 1), thrown |-> NeverReturns]
    ELSE Set_GetNextFrom(this, ToUT(i + 1), left - 1)

Set_GetNext_(this, element) ==
    Set_GetNextFrom(this, ToUT(element - minEL + 1), UTMax + 1)

(* Set::Iterator: position_ and set_, a copy of the set.                   *)
Set_Iterator(position, set) == [position_ |-> position, set_ |-> set]

\* Iterator &operator++()
Set_IteratorInc(it) ==
    LET n == Set_GetNext_(it.set_, it.position_)
    IN  [ret |-> Set_Iterator(n.ret, it.set_), thrown |-> n.thrown]

Set_IteratorEq(a, b) == a.position_ = b.position_

Set_IteratorNe(a, b) == a.position_ # b.position_

\* Iterator begin() const
Set_begin(this) ==
    IF Set_Contains(this, minEL).ret
    THEN [ret |-> Set_Iterator(minEL, this), thrown |-> NoThrow]
    ELSE LET n == Set_GetNext_(this, minEL)
         IN  [ret |-> Set_Iterator(n.ret, this), thrown |-> n.thrown]

\* Iterator end() const
Set_end(this) == Set_Iterator(ToUT(maxEL + 1), this)

\* for (; it != to; ++it) yield *it. The iterator's set does not change, so
\* once it has stepped left + 1 times with left = the number of values of
\* T, a position has repeated and the loop never ends.
RECURSIVE Set_Walk(_, _, _)
Set_Walk(it, to, left) ==
    IF ~Set_IteratorNe(it, to)
    THEN [visited |-> <<>>, thrown |-> NoThrow]
    ELSE IF left = 0
    THEN [visited |-> <<>>, thrown |-> NeverReturns]
    ELSE LET n == Set_IteratorInc(it) IN
         IF n.thrown # NoThrow
         THEN [visited |-> <<it.position_>>, thrown |-> n.thrown]
         ELSE LET rest == Set_Walk(n.ret, to, left - 1)
              IN  [visited |-> <<it.position_>> \o rest.visited,
                   thrown  |-> rest.thrown]

\* for (auto it = s.begin(); it != s.end(); ++it): the elements yielded.
Set_Traverse(this) ==
    LET b == Set_begin(this) IN
    IF b.thrown # NoThrow
    THEN [visited |-> <<>>, thrown |-> b.thrown]
    ELSE Set_Walk(b.ret, Set_end(this), UTMax + 1)

----------------------------------------------------------------------------
(* The calls on the Set.                                                   *)

\* Every Set<T, minEL, maxEL> object there is.
AllSets == [0 .. Set_Capacity - 1 -> BOOLEAN]

\* A call that never returns is the last thing the program does.
SetCalled(name, a, r) ==
    /\ thrown # NeverReturns
    /\ op' = name
    /\ arg' = a
    /\ old' = [data_ |-> data_]
    /\ data_' = r.this
    /\ thrown' = r.thrown
    /\ visited' = <<>>
    /\ UNCHANGED <<minEL, maxEL, SIZE, buffer_, head_, tail_, full_,
                   out, ptr, ret, ref, colorVars, iter>>

Returned(this) == [this |-> this, thrown |-> NoThrow]

CallSet ==
    \E value \in UT, state \in BOOLEAN :
        SetCalled("set", [value |-> value, state |-> state],
                  Set_set(data_, value, state))

CallOperatorShl ==
    \E value \in UT :
        SetCalled("operator<<", [value |-> value],
                  Set_OperatorShl(data_, value))

CallInsert ==
    \E value \in UT :
        SetCalled("Insert", [value |-> value], Set_Insert(data_, value))

CallOperatorShr ==
    \E value \in UT :
        SetCalled("operator>>", [value |-> value],
                  Set_OperatorShr(data_, value))

CallErase ==
    \E value \in UT :
        SetCalled("Erase", [value |-> value], Set_Erase(data_, value))

CallOperatorPlusEq ==
    \E value \in AllSets :
        SetCalled("operator+=", [rhs |-> value],
                  Returned(Set_OperatorPlusEq(data_, value)))

CallOperatorMinusEq ==
    \E value \in AllSets :
        SetCalled("operator-=", [rhs |-> value],
                  Returned(Set_OperatorMinusEq(data_, value)))

CallOperatorTimesEq ==
    \E value \in AllSets :
        SetCalled("operator*=", [rhs |-> value],
                  Returned(Set_OperatorTimesEq(data_, value)))

CallOperatorAssign ==
    \E rhs \in AllSets :
        SetCalled("operator=", [rhs |-> rhs],
                  Returned(Set_OperatorAssign(data_, rhs)))

CallSetClear ==
    SetCalled("Clear", [rhs |-> data_], Returned(Set_Clear(data_)))

CallRaw ==
    SetCalled("Raw", [rhs |-> data_],
              [this |-> data_, thrown |-> Set_Raw(data_).thrown])

\* A traversal from begin() to end(); visited holds what it yielded.
CallSetTraverse ==
    /\ thrown # NeverReturns
    /\ op' = "Traverse"
    /\ arg' = [rhs |-> data_]
    /\ old' = [data_ |-> data_]
    /\ thrown' = Set_Traverse(data_).thrown
    /\ visited' = Set_Traverse(data_).visited
    /\ UNCHANGED <<minEL, maxEL, data_, SIZE, buffer_, head_, tail_, full_,
                   out, ptr, ret, ref, colorVars, iter>>

\* Set<T, minEL, maxEL> s; for any minEL <= maxEL of the underlying type.
InitSet ==
    /\ minEL \in UT
    /\ maxEL \in UT
    /\ minEL <= maxEL
    /\ data_ = Set_Default
    /\ thrown = NoThrow
    /\ op = "new"
    /\ arg = [value |-> minEL]
    /\ old = [data_ |-> data_]
    /\ SIZE = 1
    /\ buffer_ = [i \in 0 .. 0 |-> 0]
    /\ head_ = 0
    /\ tail_ = 0
    /\ full_ = FALSE
    /\ out = 0
    /\ ptr = NULL
    /\ ret = Success
    /\ ref = NULL
    /\ visited = <<>>
    /\ rgb = [red |-> 0, green |-> 0, blue |-> 0]
    /\ hsv = [hue_ |-> 0, saturation_ |-> 0, value_ |-> 0]
    /\ ct = [kelvin_ |-> 2700]
    /\ lum = NULL
    /\ iter = NoIterator

NextSet ==
    \/ CallSet
    \/ CallOperatorShl
    \/ CallInsert
    \/ CallOperatorShr
    \/ CallErase
    \/ CallOperatorPlusEq
    \/ CallOperatorMinusEq
    \/ CallOperatorTimesEq
    \/ CallOperatorAssign
    \/ CallSetClear
    \/ CallRaw
    \/ CallSetTraverse

SpecSet == InitSet /\ [][NextSet]_vars

----------------------------------------------------------------------------
(* A caller that holds an iterator of the Set and changes the set between  *)
(* the iterator's steps. Here visited holds what the iterator has been     *)
(* dereferenced to since begin(), old the set as it was when begin() was   *)
(* called, and arg the position of the iterator before operator++.         *)

NoPosition == [position_ |-> NULL]

IterCalled(name, a, newData, newIter, vis, o, t) ==
    /\ thrown # NeverReturns
    /\ op' = name
    /\ arg' = a
    /\ data_' = newData
    /\ iter' = newIter
    /\ visited' = vis
    /\ old' = o
    /\ thrown' = t
    /\ UNCHANGED <<minEL, maxEL, SIZE, buffer_, head_, tail_, full_,
                   out, ptr, ret, ref, colorVars>>

\* it = s.begin();
CallSetBegin ==
    LET b == Set_begin(data_) IN
    IterCalled("begin", NoPosition, data_,
               IF b.thrown = NoThrow THEN b.ret ELSE iter,
               <<>>, [data_ |-> data_], b.thrown)

\* use(*it); ++it; for an iterator that is not s.end(). An iterator that
\* has yielded more than Capacity() elements is not followed further.
CallIteratorInc ==
    /\ iter.position_ # NULL
    /\ Set_IteratorNe(iter, Set_end(data_))
    /\ Len(visited) <= Set_Capacity
    /\ LET n == Set_IteratorInc(iter) IN
       IterCalled("operator++", [position_ |-> iter.position_], data_,
                  IF n.thrown = NoThrow THEN n.ret ELSE iter,
                  Append(visited, iter.position_), old, n.thrown)

\* ++it; for an iterator that is s.end().
CallIteratorIncAtEnd ==
    /\ iter.position_ # NULL
    /\ Set_IteratorEq(iter, Set_end(data_))
    /\ LET n == Set_IteratorInc(iter) IN
       IterCalled("operator++", [position_ |-> iter.position_], data_,
                  IF n.thrown = NoThrow THEN n.ret ELSE iter,
                  visited, old, n.thrown)

\* A call that changes the set and leaves the iterator alone.
Modified(name, r) ==
    IterCalled(name, NoPosition, r.this, iter, visited, old, r.thrown)

IterInsert ==
    \E value \in UT : Modified("Insert", Set_Insert(data_, value))

IterErase ==
    \E value \in UT : Modified("Erase", Set_Erase(data_, value))

IterClear == Modified("Clear", Returned(Set_Clear(data_)))

IterPlusEq ==
    \E value \in AllSets :
        Modified("operator+=", Returned(Set_OperatorPlusEq(data_, value)))

IterMinusEq ==
    \E value \in AllSets :
        Modified("operator-=", Returned(Set_OperatorMinusEq(data_, value)))

IterTimesEq ==
    \E value \in AllSets :
        Modified("operator*=", Returned(Set_OperatorTimesEq(data_, value)))

NextSetIter ==
    \/ CallSetBegin
    \/ CallIteratorInc
    \/ CallIteratorIncAtEnd
    \/ IterInsert
    \/ IterErase
    \/ IterClear
    \/ IterPlusEq
    \/ IterMinusEq
    \/ IterTimesEq

SpecSetIter == InitSet /\ [][NextSetIter]_vars

----------------------------------------------------------------------------
(* ColorRgb, ColorHsv and ColorTemp: each object is the record of its      *)
(* members; a member function is an operator on that record.               *)

\* Conversion of an int to uint8_t and to uint16_t.
ToU8(x) == x % 256

ToU16(x) == x % 65536

\* std::clamp(v, lo, hi)
clamp(v, lo, hi) == IF v < lo THEN lo ELSE IF hi < v THEN hi ELSE v

\* ColorRgb() = default
ColorRgb_Default == [red |-> 0, green |-> 0, blue |-> 0]

\* ColorRgb(uint8_t r, uint8_t g, uint8_t b)
ColorRgb(r, g, b) == [red |-> ToU8(r), green |-> ToU8(g), blue |-> ToU8(b)]

\* ColorHsv() = default
ColorHsv_Default == [hue_ |-> 0, saturation_ |-> 0, value_ |-> 0]

\* SetHue() that stores hue as it is.
ColorHsv_SetHue_Unclamped(this, hue) == [this EXCEPT !.hue_ = ToU16(hue)]

\* void SetHue(uint16_t hue)
ColorHsv_SetHue(this, hue) ==
    [this EXCEPT !.hue_ = clamp(ToU16(hue), 0, 360)]

\* void SetSaturation(uint8_t saturation)
ColorHsv_SetSaturation(this, saturation) ==
    [this EXCEPT !.saturation_ = clamp(ToU8(saturation), 0, 100)]

\* void SetValue(uint8_t value)
ColorHsv_SetValue(this, value) ==
    [this EXCEPT !.value_ = clamp(ToU8(value), 0, 100)]

\* ColorHsv(uint16_t hue, uint8_t saturation, uint8_t value)
ColorHsv(hue, saturation, value) ==
    ColorHsv_SetValue(
        ColorHsv_SetSaturation(ColorHsv_SetHue(ColorHsv_Default, hue),
                               saturation),
        value)

\* ColorTemp() = default: kelvin_ = 2700
ColorTemp_Default == [kelvin_ |-> 2700]

\* void SetKelvin(uint16_t kelvin)
ColorTemp_SetKelvin(this, kelvin) ==
    [this EXCEPT !.kelvin_ = clamp(ToU16(kelvin), 1500, 15000)]

\* ColorTemp(uint16_t kelvin)
ColorTemp(kelvin) == ColorTemp_SetKelvin(ColorTemp_Default, kelvin)

\* abs(int)
abs(x) == IF x < 0 THEN 0 - x ELSE x

\* ToRgb() with "|| h >= 6" left out.
ColorHsv_ToRgb_NoSixth(this) ==
    LET chroma == ((this.value_ * this.saturation_) * 255) \div 10000
        m      == ToU16(((this.value_ * 255) \div 100) - chroma)
        tmp1   == (this.hue_ * 65536) \div 60
        tmp2   == tmp1 % 131072
        tmp3   == abs(tmp2 - 65535)
        tmp4   == (65535 - tmp3) * chroma
        x      == ToU8(tmp4 \div 65536)
        h      == ToU8(this.hue_ \div 60)
    IN  IF h = 0 THEN ColorRgb(chroma + m, x + m, m)
        ELSE IF h = 1 THEN ColorRgb(x + m, chroma + m, m)
        ELSE IF h = 2 THEN ColorRgb(m, chroma + m, x + m)
        ELSE IF h = 3 THEN ColorRgb(m, x + m, chroma + m)
        ELSE IF h = 4 THEN ColorRgb(x + m, m, chroma + m)
        ELSE IF h = 5 THEN ColorRgb(chroma + m, m, x + m)
        ELSE ColorRgb_Default

\* ColorRgb ColorHsv::ToRgb() const. tmp >> 16 of a negative tmp is the
\* arithmetic shift, the floor of the division.
ColorHsv_ToRgb(this) ==
    LET chroma == ((this.value_ * this.saturation_) * 255) \div 10000
        m      == ToU16(((this.value_ * 255) \div 100) - chroma)
        tmp1   == (this.hue_ * 65536) \div 60
        tmp2   == tmp1 % 131072
        tmp3   == abs(tmp2 - 65535)
        tmp4   == (65535 - tmp3) * chroma
        x      == ToU8(tmp4 \div 65536)
        h      == ToU8(this.hue_ \div 60)
    IN  IF h = 0 \/ h >= 6 THEN ColorRgb(chroma + m, x + m, m)
        ELSE IF h = 1 THEN ColorRgb(x + m, chroma + m, m)
        ELSE IF h = 2 THEN ColorRgb(m, chroma + m, x + m)
        ELSE IF h = 3 THEN ColorRgb(m, x + m, chroma + m)
        ELSE IF h = 4 THEN ColorRgb(x + m, m, chroma + m)
        ELSE IF h = 5 THEN ColorRgb(chroma + m, m, x + m)
        ELSE ColorRgb_Default

\* (x << 24) / d for 0 <= x <= d, by long division in two steps of 12 bits
\* so that no intermediate value leaves 32 bits.
Shl24Div(x, d) ==
    LET a == x * 4096
    IN  (a \div d) * 4096 + ((a % d) * 4096) \div d

\* The same with the rounding step "p += 1" left out.
FixedPercent_Truncated(x, d) ==
    ToU8((Shl24Div(x, d) * 100) \div 16777216)

\* ul = x << 24; ul /= d; ul *= 100; p = uint8_t(ul >> 24);
\* if ((ul & 0xFFFFFF) >= 0x800000) p += 1;
\* ul is at most 100 * 2^24 and does not wrap.
FixedPercent(x, d) ==
    LET ul == Shl24Div(x, d) * 100
        p  == ToU8(ul \div 16777216)
    IN  IF ul % 16777216 >= 8388608 THEN ToU8(p + 1) ELSE p

\* sl /= c for int32_t sl and c > 0: the quotient truncated toward zero.
TruncDiv(sl, c) == IF sl >= 0 THEN sl \div c ELSE 0 - ((0 - sl) \div c)

\* sl *= 60; hue = uint16_t(sl >> 16); if ((sl & 0xFFFF) >= 0x8000) hue += 1;
HueUp(sl) ==
    LET s == sl * 60
        h == ToU16(s \div 65536)
    IN  IF s % 65536 >= 32768 THEN ToU16(h + 1) ELSE h

\* sl = -sl; sl *= 60; hue = 360 - uint16_t(sl >> 16);
\* if ((sl & 0xFFFF) >= 0x8000) hue -= 1;
HueDown(sl) ==
    LET s == (0 - sl) * 60
        h == ToU16(360 - ToU16(s \div 65536))
    IN  IF s % 65536 >= 32768 THEN ToU16(h - 1) ELSE h

Max3(a, b, c) == IF a >= b /\ a >= c THEN a ELSE IF b >= c THEN b ELSE c

Min3(a, b, c) == IF a <= b /\ a <= c THEN a ELSE IF b <= c THEN b ELSE c

\* ColorRgb::ToHsv(): the locals hue, saturation and value as they are when
\* the return statement is reached. (a - b) << 16 is (a - b) * 65536, also
\* for a negative a - b.
ColorRgb_ToHsvLocals(this) ==
    LET max   == Max3(this.red, this.green, this.blue)
        min   == Min3(this.red, this.green, this.blue)
        c     == ToU8(max - min)
        value == FixedPercent(max, 255)
    IN  IF c = 0 \/ max = 0
        THEN [hue |-> 0, saturation |-> 0, value |-> value]
        ELSE LET sl  == IF this.red = max
                        THEN TruncDiv((this.green - this.blue) * 65536, c)
                        ELSE IF this.green = max
                        THEN TruncDiv((this.blue - this.red) * 65536, c)
                             + 2 * 65536
                        ELSE TruncDiv((this.red - this.green) * 65536, c)
                             + 4 * 65536
                 hue == IF this.red = max /\ sl < 0
                        THEN HueDown(sl) ELSE HueUp(sl)
             IN  [hue |-> hue, saturation |-> FixedPercent(c, max),
                  value |-> value]

\* ColorHsv ColorRgb::ToHsv() const
ColorRgb_ToHsv(this) ==
    LET l == ColorRgb_ToHsvLocals(this)
    IN  ColorHsv(l.hue, l.saturation, l.value)

\* uint8_t GetLuminance() const: the values it can return. The sum of the
\* three float products is converted to uint16_t, which drops the fraction.
\* In units of 1/10000 the exact sum is s; the float sum is off by less
\* than 1/10000, so it has the integer part of s / 10000 unless s / 10000
\* is itself an integer k > 0, where the float sum is k or just below it
\* depending on how the build rounds and contracts the operations; for
\* white, (255, 255, 255), the binary32 sum is 255 in each of these ways.
\* std::clamp<uint8_t> converts that to uint8_t and changes no uint8_t.
ColorRgb_GetLuminance(this) ==
    LET s == 2126 * this.red + 7152 * this.green + 722 * this.blue
        k == s \div 10000
        luminance == IF s % 10000 = 0 /\ k > 0 /\ k < 255
                     THEN {k - 1, k} ELSE {k}
    IN  {clamp(ToU8(l), 0, 255) : l \in luminance}

\* The arguments the caller passes: for a uint16_t hue, for a uint8_t
\* saturation or value, for a uint8_t channel, for a uint16_t kelvin.
HueArgs == {0, 120, 240, 360, 400}

PercentArgs == {0, 100, 150}

ChannelArgs == {0, 128, 255}

KelvinArgs == {999, 2700, 20000}

\* ColorTemp ColorRgb::ToCt() const: the values it can return. kelvin, a
\* uint16_t converted from a double that exp() and pow() give, is taken to
\* be any of the caller's uint16_t; ColorTemp(kelvin) is as in the code.
ColorRgb_ToCt(this) == {ColorTemp(kelvin) : kelvin \in KelvinArgs}

ColorCalled(name, a, newRgb, newHsv, newCt, l) ==
    /\ op' = name
    /\ arg' = a
    /\ rgb' = newRgb
    /\ hsv' = newHsv
    /\ ct' = newCt
    /\ lum' = l
    /\ UNCHANGED <<cbVars, setVars, old, iter>>

CallColorRgb ==
    \E r \in ChannelArgs, g \in ChannelArgs, b \in ChannelArgs :
        ColorCalled("ColorRgb", [r |-> r, g |-> g, b |-> b],
                    ColorRgb(r, g, b), hsv, ct, NULL)

CallColorHsv ==
    \E hue \in HueArgs, saturation \in PercentArgs, value \in PercentArgs :
        ColorCalled("ColorHsv",
                    [hue |-> hue, saturation |-> saturation, value |-> value],
                    rgb, ColorHsv(hue, saturation, value), ct, NULL)

CallSetHue ==
    \E hue \in HueArgs :
        ColorCalled("SetHue", [hue |-> hue],
                    rgb, ColorHsv_SetHue(hsv, hue), ct, NULL)

CallSetSaturation ==
    \E saturation \in PercentArgs :
        ColorCalled("SetSaturation", [saturation |-> saturation],
                    rgb, ColorHsv_SetSaturation(hsv, saturation), ct, NULL)

CallSetValue ==
    \E value \in PercentArgs :
        ColorCalled("SetValue", [value |-> value],
                    rgb, ColorHsv_SetValue(hsv, value), ct, NULL)

CallColorTemp ==
    \E kelvin \in KelvinArgs :
        ColorCalled("ColorTemp", [kelvin |-> kelvin],
                    rgb, hsv, ColorTemp(kelvin), NULL)

CallSetKelvin ==
    \E kelvin \in KelvinArgs :
        ColorCalled("SetKelvin", [kelvin |-> kelvin],
                    rgb, hsv, ColorTemp_SetKelvin(ct, kelvin), NULL)

\* ColorRgb(const ColorHsv& hsv): *this = hsv.ToRgb()
CallToRgb ==
    ColorCalled("ToRgb", [hsv |-> hsv], ColorHsv_ToRgb(hsv), hsv, ct, NULL)

\* ColorHsv(const ColorRgb& rgb): *this = rgb.ToHsv()
CallToHsv ==
    ColorCalled("ToHsv", [rgb |-> rgb], rgb, ColorRgb_ToHsv(rgb), ct, NULL)

\* ColorTemp(const ColorRgb& rgb): *this = rgb.ToCt()
CallToCt ==
    \E t \in ColorRgb_ToCt(rgb) :
        ColorCalled("ToCt", [rgb |-> rgb], rgb, hsv, t, NULL)

CallGetLuminance ==
    \E l \in ColorRgb_GetLuminance(rgb) :
        ColorCalled("GetLuminance", [rgb |-> rgb], rgb, hsv, ct, l)

\* ColorRgb rgb; ColorHsv hsv; ColorTemp ct;
InitColor ==
    /\ rgb = ColorRgb_Default
    /\ hsv = ColorHsv_Default
    /\ ct = ColorTemp_Default
    /\ lum = NULL
    /\ iter = NoIterator
    /\ op = "new"
    /\ arg = [hue |-> 0]
    /\ old = [data_ |-> <<>>]
    /\ SIZE = 1
    /\ buffer_ = [i \in 0 .. 0 |-> 0]
    /\ head_ = 0
    /\ tail_ = 0
    /\ full_ = FALSE
    /\ out = 0
    /\ ptr = NULL
    /\ ret = Success
    /\ ref = NULL
    /\ visited = <<>>
    /\ minEL = 0
    /\ maxEL = 0
    /\ data_ = [i \in 0 .. 0 |-> FALSE]
    /\ thrown = NoThrow

NextColor ==
    \/ CallColorRgb
    \/ CallColorHsv
    \/ CallSetHue
    \/ CallSetSaturation
    \/ CallSetValue
    \/ CallColorTemp
    \/ CallSetKelvin
    \/ CallToRgb
    \/ CallToHsv
    \/ CallToCt
    \/ CallGetLuminance

SpecColor == InitColor /\ [][NextColor]_vars

----------------------------------------------------------------------------
(* Properties of CircularBuffer.                                           *)

\* The elements a buffer holds, oldest first: Size() slots from head_ on.
Contents(this) ==
    [i \in 1 .. Size(this) |-> this.buffer_[(this.head_ + i - 1) % SIZE]]

\* The slots that hold them, in the same order.
LiveSlots(this) ==
    [i \in 1 .. Size(this) |-> (this.head_ + i - 1) % SIZE]

\* Every sequence of at most n values.
SeqsUpTo(n) == UNION {[1 .. k -> Values] : k \in 0 .. n}

\* Push(vs[1]); ...; Push(vs[Len(vs)]): the buffer afterwards and the
\* statuses returned.
RECURSIVE PushAll(_, _)
PushAll(this, vs) ==
    IF vs = <<>> THEN [this |-> this, rets |-> <<>>]
    ELSE LET r    == Push(this, Head(vs))
             rest == PushAll(r.this, Tail(vs))
         IN  [this |-> rest.this, rets |-> <<r.ret>> \o rest.rets]

\* k times Pop(&v): the buffer afterwards, the statuses returned and the
\* values v held after each call (v holds v0 before the first).
RECURSIVE PopAll(_, _, _)
PopAll(this, k, v0) ==
    IF k = 0 THEN [this |-> this, rets |-> <<>>, outs |-> <<>>]
    ELSE LET r    == Pop(this, v0)
             rest == PopAll(r.this, k - 1, r.data)
         IN  [this |-> rest.this, rets |-> <<r.ret>> \o rest.rets,
              outs |-> <<r.data>> \o rest.outs]

AllSuccess(rets) == \A i \in 1 .. Len(rets) : rets[i] = Success

\* C1: CircularBuffer is a FIFO queue. A successful Push appends its
\* argument to the held elements and a successful Pop(out) delivers and
\* removes the oldest of them, so under any interleaving the popped values
\* are the pushed values in push order; and from every reachable empty
\* buffer (whatever its head/tail offset), pushing any v1..vk, k <= SIZE,
\* succeeds k times and k calls of Pop(out) then succeed and deliver
\* exactly v1..vk. (The last part is evaluated in the states a call of
\* Front() leads to: Front() is always callable and changes nothing, so
\* these states hold every reachable buffer and caller's out.)
C1_Fifo ==
    /\ (op = "Push" /\ ret = Success) =>
           Contents(This) = Append(Contents(old.this), arg)
    /\ (op = "Pop" /\ ret = Success) =>
           /\ Contents(old.this) # <<>>
           /\ out = Head(Contents(old.this))
           /\ Contents(This) = Tail(Contents(old.this))
    /\ (op = "Front" /\ Empty(This)) =>
           \A vs \in SeqsUpTo(SIZE) :
               LET pushed == PushAll(This, vs)
                   popped == PopAll(pushed.this, Len(vs), out)
               IN  /\ Len(pushed.rets) = Len(vs)
                   /\ AllSuccess(pushed.rets)
                   /\ Len(popped.rets) = Len(vs)
                   /\ AllSuccess(popped.rets)
                   /\ popped.outs = vs
                   /\ Empty(popped.this)

\* C1 witness: a Pop(out) has succeeded on a buffer whose live region wraps
\* around the end of the array and held two different values; the buffer it
\* leaves is empty at a non-zero offset.
C1_Witness ==
    /\ op = "Pop"
    /\ ret = Success
    /\ old.this.tail_ < old.this.head_
    /\ Len(Contents(old.this)) >= 2
    /\ Contents(old.this)[1] # Contents(old.this)[2]
    /\ SIZE >= 3


\* C2: Push on a full buffer returns -1 and changes nothing (head, tail,
\* full flag and every slot as before the call); Push on a buffer that is
\* not full returns 0, writes the value at slot tail, advances tail modulo
\* SIZE, leaves head alone and sets full exactly when tail equals head after
\* the advance.
C2_Push ==
    op = "Push" =>
        IF old.this.full_
        THEN /\ ret = Failure
             /\ head_ = old.this.head_
             /\ tail_ = old.this.tail_
             /\ full_ = old.this.full_
             /\ \A i \in 0 .. SIZE - 1 : buffer_[i] = old.this.buffer_[i]
        ELSE /\ ret = Success
             /\ buffer_ = [old.this.buffer_ EXCEPT ![old.this.tail_] = arg]
             /\ tail_ = (old.this.tail_ + 1) % SIZE
             /\ head_ = old.this.head_
             /\ full_ = (tail_ = head_)

\* C2 witness: Push has failed on a full buffer whose head is not slot 0,
\* with an argument that differs from the value in the slot at tail.
C2_Witness ==
    /\ op = "Push"
    /\ ret = Failure
    /\ old.this.full_
    /\ head_ # 0
    /\ arg # buffer_[tail_]

\* C3: on an empty buffer Pop(out), Pop() and Peek(&out) each return -1 and
\* change nothing: head, tail, the full flag and the slots are as before and
\* the caller's output variables are not written.
C3_EmptyFails ==
    (op \in {"Pop", "PopDiscard", "Peek"} /\ Empty(old.this)) =>
        /\ ret = Failure
        /\ This = old.this
        /\ out = old.out
        /\ ptr = old.ptr

\* C3 witness: Pop(out) has failed on a buffer that is empty at a non-zero
\* offset, while the slot at head holds a value other than the caller's.
C3_Witness ==
    /\ op = "Pop"
    /\ ret = Failure
    /\ Empty(old.this)
    /\ head_ # 0
    /\ buffer_[head_] # out

\* C4: PushForce(x) on a full buffer that held w1..wN (oldest first) leaves
\* it full with Size() == SIZE, holding w2..wN, x: N calls of Pop(out) then
\* all succeed and return w2..wN followed by x.
C4_PushForceFull ==
    (op = "PushForce" /\ old.this.full_) =>
        LET w      == Contents(old.this)
            popped == PopAll(This, SIZE, out)
        IN  /\ Len(w) = SIZE
            /\ Full(This)
            /\ Size(This) = SIZE
            /\ Contents(This) = Append(Tail(w), arg)
            /\ AllSuccess(popped.rets)
            /\ popped.outs = Append(Tail(w), arg)
            /\ Empty(popped.this)

\* C4 witness: PushForce has acted on a full buffer of three slots whose
\* oldest element differs from the next one and from the value pushed.
C4_Witness ==
    /\ op = "PushForce"
    /\ old.this.full_
    /\ SIZE = 3
    /\ Contents(old.this)[1] # Contents(old.this)[2]
    /\ Contents(old.this)[1] # arg
    /\ Contents(This) = <<Contents(old.this)[2], Contents(old.this)[3], arg>>

\* C5: in every state reachable by Push, PushForce, Pop(out), Pop(),
\* DirectPop, Peek, Front and Clear, for every SIZE >= 1: head < SIZE and
\* tail < SIZE; full implies head == tail; Size() is in [0, SIZE], equals
\* SIZE when full and (tail - head) mod SIZE otherwise; Empty() holds
\* exactly when Size() == 0 and Full() exactly when Size() == SIZE;
\* MaxSize() is SIZE.
C5_Invariants ==
    /\ SIZE >= 1
    /\ head_ \in 0 .. SIZE - 1
    /\ tail_ \in 0 .. SIZE - 1
    /\ full_ => head_ = tail_
    /\ Size(This) \in 0 .. SIZE
    /\ Size(This) = IF full_ THEN SIZE ELSE (tail_ - head_) % SIZE
    /\ Empty(This) <=> Size(This) = 0
    /\ Full(This) <=> Size(This) = SIZE
    /\ MaxSize(This) = SIZE

\* C5 witness: a buffer with SIZE = 1 is full after PushForce overwrote its
\* only element.
C5_Witness ==
    /\ SIZE = 1
    /\ op = "PushForce"
    /\ old.this.full_
    /\ full_
    /\ Size(This) = 1

\* C6: Peek(&out) on a non-empty buffer returns 0, points out at the slot at
\* head and does not advance: head, tail, full, the slots and Size() are
\* unchanged, and a Pop(out2) that follows at once succeeds and returns the
\* value Peek exposed.
C6_Peek ==
    (op = "Peek" /\ ~Empty(old.this)) =>
        /\ ret = Success
        /\ ptr = old.this.head_
        /\ This = old.this
        /\ Size(This) = Size(old.this)
        /\ Pop(This, out).ret = Success
        /\ Pop(This, out).data = buffer_[ptr]

\* C6 witness: Peek has succeeded on a buffer whose head is not slot 0 and
\* whose slot at tail holds another value than the front; the pointer was
\* moved by the call.
C6_Witness ==
    /\ op = "Peek"
    /\ ret = Success
    /\ head_ # 0
    /\ ptr # old.ptr
    /\ buffer_[head_] # buffer_[tail_]

\* C7: iterating from begin() until the iterator equals end() visits exactly
\* Size() slots, starting at head and in insertion order, wrapping modulo
\* SIZE: an empty buffer yields nothing (begin() == end()) and a full
\* buffer, where head == tail, yields all SIZE elements.
C7_Traversal ==
    /\ Traverse(This) = LiveSlots(This)
    /\ Len(Traverse(This)) = Size(This)
    /\ IteratorEq(begin(This), end(This)) <=> Empty(This)
    /\ IteratorNe(begin(This), end(This)) <=> ~Empty(This)
    /\ Full(This) => Len(Traverse(This)) = SIZE
    /\ op = "Traverse" =>
           /\ visited = LiveSlots(old.this)
           /\ [i \in 1 .. Len(visited) |-> buffer_[visited[i]]]
                  = Contents(old.this)

\* C7 witness: a full buffer of at least two slots whose head is not slot 0
\* has been traversed, and all SIZE slots were visited.
C7_Witness ==
    /\ op = "Traverse"
    /\ full_
    /\ head_ = tail_
    /\ head_ # 0
    /\ SIZE >= 2
    /\ Len(visited) = SIZE
    /\ visited[1] = head_

\* C8: after Clear() called in any reachable state, Empty() is true,
\* Size() == 0, Full() is false and head == tail == 0; a following Push
\* succeeds and a following Pop (either overload) fails.
C8_Clear ==
    op = "Clear" =>
        /\ Empty(This)
        /\ Size(This) = 0
        /\ ~Full(This)
        /\ head_ = 0
        /\ tail_ = 0
        /\ \A x \in Values : Push(This, x).ret = Success
        /\ Pop(This, out).ret = Failure
        /\ PopDiscard(This).ret = Failure

\* C8 witness: Clear has been called on a full buffer whose head was not
\* slot 0.
C8_Witness ==
    /\ op = "Clear"
    /\ old.this.full_
    /\ old.this.head_ # 0
    /\ Empty(This)


\* C19: on a buffer that is not full PushForce(x) has exactly the effect of
\* a successful Push(x): x is written at slot tail, tail advances modulo
\* SIZE, head is unchanged, full becomes true iff tail == head after the
\* advance, and no element is dropped; head moves only when the buffer was
\* full before the call.
C19_PushForceNotFull ==
    op = "PushForce" =>
        /\ (~old.this.full_) =>
               /\ Push(old.this, arg).ret = Success
               /\ This = Push(old.this, arg).this
               /\ buffer_ = [old.this.buffer_ EXCEPT ![old.this.tail_] = arg]
               /\ tail_ = (old.this.tail_ + 1) % SIZE
               /\ head_ = old.this.head_
               /\ full_ = (tail_ = head_)
               /\ Contents(This) = Append(Contents(old.this), arg)
        /\ (head_ # old.this.head_) => old.this.full_

\* C19 witness: PushForce has filled a wrapped buffer of at least three
\* slots that held SIZE - 1 elements, with a value other than its oldest.
C19_Witness ==
    /\ op = "PushForce"
    /\ ~old.this.full_
    /\ SIZE >= 3
    /\ Size(old.this) = SIZE - 1
    /\ old.this.head_ # 0
    /\ full_
    /\ arg # Contents(old.this)[1]

\* C20: DirectPop() performs no emptiness check: in every state it returns a
\* reference to the slot at the current head, then advances head by one
\* modulo SIZE and clears full, leaving tail and all slots unchanged; on a
\* non-empty buffer that is the state change and the value of Pop(out).
C20_DirectPop ==
    op = "DirectPop" =>
        /\ ref = old.this.head_
        /\ head_ = (old.this.head_ + 1) % SIZE
        /\ full_ = FALSE
        /\ tail_ = old.this.tail_
        /\ buffer_ = old.this.buffer_
        /\ (~Empty(old.this)) =>
               /\ Pop(old.this, out).ret = Success
               /\ This = Pop(old.this, out).this
               /\ buffer_[ref] = Pop(old.this, out).data

\* C20 witness: DirectPop has acted on an empty buffer of at least two
\* slots, and head has moved past tail.
C20_Witness ==
    /\ op = "DirectPop"
    /\ Empty(old.this)
    /\ SIZE >= 2
    /\ head_ # tail_
    /\ ref = old.this.head_

\* C21 as claimed: after Pop(out), Pop() or DirectPop(), Size() is at most
\* what it was before the call, and a buffer that was Empty() is still
\* Empty().
C21_RemovalNeverGrows ==
    (op \in {"Pop", "PopDiscard", "DirectPop"}) =>
        /\ Size(This) <= Size(old.this)
        /\ Empty(old.this) => Empty(This)

\* C21 as amended: after Pop(out) or Pop(), and after DirectPop() on a
\* buffer that was not empty, Size() is at most what it was before the
\* call, and Pop(out) and Pop() leave an empty buffer empty; DirectPop() on
\* an empty buffer moves head past tail, and Size() is then SIZE - 1.
C21_Removal ==
    /\ (op \in {"Pop", "PopDiscard"}) =>
           /\ Size(This) <= Size(old.this)
           /\ Empty(old.this) => Empty(This)
    /\ (op = "DirectPop") =>
           IF Empty(old.this)
           THEN Size(This) = SIZE - 1
           ELSE Size(This) <= Size(old.this)

\* C21 witness: DirectPop() has acted on an empty buffer of at least two
\* slots, which now counts SIZE - 1 elements.
C21_Witness ==
    /\ op = "DirectPop"
    /\ Empty(old.this)
    /\ Size(old.this) = 0
    /\ SIZE >= 2
    /\ Size(This) = SIZE - 1
    /\ ~Empty(This)

----------------------------------------------------------------------------
(* Properties of Set.                                                      *)

InRange(v) == minEL <= v /\ v <= maxEL

\* The members of a set: the values Contains() answers true for.
Members(this) == {v \in UT : Set_Contains(this, v).ret}

\* C9: for every v in [minEL, maxEL] and every Set state: after Insert(v),
\* operator<<(v) or set(v, true), Contains(v) is true; after Erase(v),
\* operator>>(v) or set(v, false), Contains(v) is false; whether or not v
\* was a member before, so a second call changes nothing.
C9_InsertErase ==
    /\ (op \in {"Insert", "operator<<"} /\ InRange(arg.value)) =>
           /\ thrown = NoThrow
           /\ Set_Contains(data_, arg.value) = [ret |-> TRUE, thrown |-> NoThrow]
           /\ Set_OperatorIndex(data_, arg.value).ret
           /\ Set_Insert(data_, arg.value).this = data_
           /\ Set_OperatorShl(data_, arg.value).this = data_
    /\ (op \in {"Erase", "operator>>"} /\ InRange(arg.value)) =>
           /\ thrown = NoThrow
           /\ Set_Contains(data_, arg.value) = [ret |-> FALSE, thrown |-> NoThrow]
           /\ ~Set_OperatorIndex(data_, arg.value).ret
           /\ Set_Erase(data_, arg.value).this = data_
           /\ Set_OperatorShr(data_, arg.value).this = data_
    /\ (op = "set" /\ InRange(arg.value)) =>
           /\ thrown = NoThrow
           /\ Set_Contains(data_, arg.value) =
                  [ret |-> arg.state, thrown |-> NoThrow]
           /\ Set_set(data_, arg.value, arg.state).this = data_

\* C9 witness: Erase(v) has removed a member v that is neither minEL nor
\* maxEL of a set whose range does not start at 0, and other members remain.
C9_Witness ==
    /\ op = "Erase"
    /\ minEL > 0
    /\ minEL < arg.value
    /\ arg.value < maxEL
    /\ old.data_[BitIndex(arg.value)]
    /\ ~Set_Contains(data_, arg.value).ret
    /\ Members(data_) # {}

\* C10: for every v outside [minEL, maxEL], Insert(v), Erase(v), their
\* operators and set(v, state) return normally and leave the Set exactly as
\* it was (same members, same Size(), equal under ==), and Contains(v) is
\* false in every state.
C10_OutOfRange ==
    /\ \A v \in UT :
           ~InRange(v) =>
               /\ Set_Contains(data_, v) = [ret |-> FALSE, thrown |-> NoThrow]
               /\ Set_OperatorIndex(data_, v) =
                      [ret |-> FALSE, thrown |-> NoThrow]
    /\ (/\ op \in {"Insert", "operator<<", "Erase", "operator>>", "set"}
        /\ ~InRange(arg.value)) =>
           /\ thrown = NoThrow
           /\ Members(data_) = Members(old.data_)
           /\ Set_Size(data_) = Set_Size(old.data_)
           /\ Set_OperatorEq(data_, old.data_)
           /\ data_ = old.data_

\* C10 witness: Erase(v) with v below minEL has left a set with members as
\* it was, in a range that also has values above maxEL.
C10_Witness ==
    /\ op = "Erase"
    /\ arg.value < minEL
    /\ maxEL < UTMax
    /\ Members(data_) # {}
    /\ data_ = old.data_
    /\ thrown = NoThrow


\* The sets of example.cpp over kOptions1 .. kOptions10 (kOptions<i+1> is
\* bit i): set holds kOptions1, 2, 3 and set2 holds kOptions4, 2, 6.
ExampleSet == [i \in 0 .. 9 |-> i \in {0, 1, 2}]

ExampleSet2 == [i \in 0 .. 9 |-> i \in {3, 1, 5}]

C13_Size ==
    /\ Set_Size(data_) =
           [ret |-> Cardinality({v \in minEL .. maxEL :
                                    Set_Contains(data_, v).ret}),
            thrown |-> NoThrow]
    /\ Set_Size(data_).ret \in 0 .. Set_Capacity
    /\ Set_Capacity = maxEL - minEL + 1
    /\ op = "Clear" =>
           /\ Set_Size(data_).ret = 0
           /\ \A v \in UT : ~Set_Contains(data_, v).ret

\* C13 witness: a set over a range that does not start at 0 holds minEL and
\* maxEL but not every element, after operator+= added members.
C13_Witness ==
    /\ op = "operator+="
    /\ minEL > 0
    /\ Set_Contains(data_, minEL).ret
    /\ Set_Contains(data_, maxEL).ret
    /\ Set_Size(data_).ret = 2
    /\ Set_Size(old.data_).ret = 1
    /\ Set_Capacity = 3

\* The members of S in ascending order.
RECURSIVE Ascending(_)
Ascending(S) ==
    IF S = {} THEN <<>>
    ELSE LET m == CHOOSE x \in S : \A y \in S : x <= y
         IN  <<m>> \o Ascending(S \ {m})

\* C12: for every Set state and every instantiation, the one with maxEL the
\* largest value of UT included: a traversal from begin() until the iterator
\* equals end() returns and has yielded exactly the members, each once, in
\* ascending order; begin() is the smallest member; begin() == end()
\* exactly when the set is empty; and end() is not at a member.
C12_Iteration ==
    (op = "Traverse") =>
        /\ thrown = NoThrow
        /\ visited = Ascending(Members(data_))
        /\ Set_begin(data_).thrown = NoThrow
        /\ \A m \in Members(data_) :
               /\ Set_begin(data_).ret.position_ <= m
               /\ Set_begin(data_).ret.position_ \in Members(data_)
               /\ Set_end(data_).position_ # m
        /\ Set_IteratorEq(Set_begin(data_).ret, Set_end(data_))
               <=> (Members(data_) = {})

\* C14: no call on a Set, Raw() included, raises an exception, whatever the
\* set, the argument and the capacity. (The claim's other half, that every
\* call returns, fails with the traversal of C12.)
C14_NoException == thrown \in {NoThrow, NeverReturns}

\* C23: for every v in [minEL, maxEL] and every w other than v, Contains(w)
\* is the same before and after Insert(v), operator<<(v), Erase(v),
\* operator>>(v) and set(v, state); and Size() grows by 1 when v was not a
\* member and is inserted, shrinks by 1 when v was a member and is erased,
\* and stays the same otherwise.
C23_Frame ==
    (/\ op \in {"Insert", "operator<<", "Erase", "operator>>", "set"}
     /\ InRange(arg.value)) =>
        LET was    == Set_Contains(old.data_, arg.value).ret
            insert == \/ op \in {"Insert", "operator<<"}
                      \/ (op = "set" /\ arg.state)
        IN  /\ \A w \in UT \ {arg.value} :
                   Set_Contains(data_, w) = Set_Contains(old.data_, w)
            /\ Set_Size(data_).ret - Set_Size(old.data_).ret
                   = IF insert /\ ~was THEN 1
                     ELSE IF ~insert /\ was THEN 0 - 1
                     ELSE 0

\* C23 witness: Erase(v) has removed a member v from a set with two other
\* members, one below and one above it, which are still members.
C23_Witness ==
    /\ op = "Erase"
    /\ InRange(arg.value)
    /\ Set_Contains(old.data_, arg.value).ret
    /\ ~Set_Contains(data_, arg.value).ret
    /\ Set_Size(old.data_).ret = 3
    /\ Set_Size(data_).ret = 2
    /\ \E w1 \in Members(data_), w2 \in Members(data_) :
           w1 < arg.value /\ arg.value < w2

\* C22: once the caller has an iterator from begin(), and whatever Insert,
\* Erase, Clear, +=, -= and *= do to the set between its steps: what the
\* iterator has yielded is the beginning of the ascending list of the
\* members the set had when begin() was called; the iterator equals end()
\* exactly when it has yielded them all, so after at most Capacity()
\* increments; operator++ returns; and operator++ on an iterator that
\* equals end() leaves it equal to end().
C22_IteratorCopy ==
    (iter.position_ # NULL) =>
        LET members == Ascending(Members(old.data_)) IN
        /\ Len(visited) <= Set_Capacity
        /\ Len(visited) <= Len(members)
        /\ visited = SubSeq(members, 1, Len(visited))
        /\ Set_IteratorEq(iter, Set_end(data_)) <=> (visited = members)
        /\ (op = "operator++") =>
               /\ thrown = NoThrow
               /\ (arg.position_ = Set_end(data_).position_) =>
                      Set_IteratorEq(iter, Set_end(data_))

\* The same holds of every instantiation in which Capacity() + 1 is a value
\* of UT, so that the start of the loop in GetNext_ does not wrap.
C22_UnlessWrapped == (Set_Capacity < UTMax) => C22_IteratorCopy

----------------------------------------------------------------------------
(* Properties of the colors.                                               *)

\* The value of lo .. hi nearest to v.
Nearest(v, lo, hi) == IF v \in lo .. hi THEN v ELSE IF v < lo THEN lo ELSE hi

Hsv(h, s, v) == [hue_ |-> h, saturation_ |-> s, value_ |-> v]

Rgb(r, g, b) == [red |-> r, green |-> g, blue |-> b]

\* C15: in every state, that is after any constructor or setter call, hue_
\* is in [0, 360], saturation_ and value_ are in [0, 100] and kelvin_ is in
\* [1500, 15000]; what a constructor or setter stores is its argument when
\* that is in range and the nearest bound when it is not, for every
\* uint16_t hue and kelvin and every uint8_t saturation and value;
\* ColorHsv(400, 150, 150) is (360, 100, 100), ColorTemp(999) is 1500,
\* ColorTemp(20000) is 15000, and a default-constructed ColorTemp is 2700.
C15_Clamped ==
    /\ hsv.hue_ \in 0 .. 360
    /\ hsv.saturation_ \in 0 .. 100
    /\ hsv.value_ \in 0 .. 100
    /\ ct.kelvin_ \in 1500 .. 15000
    /\ (op = "ColorHsv") =>
           hsv = Hsv(Nearest(arg.hue, 0, 360),
                     Nearest(arg.saturation, 0, 100),
                     Nearest(arg.value, 0, 100))
    /\ (op = "SetHue") => hsv.hue_ = Nearest(arg.hue, 0, 360)
    /\ (op = "SetSaturation") =>
           hsv.saturation_ = Nearest(arg.saturation, 0, 100)
    /\ (op = "SetValue") => hsv.value_ = Nearest(arg.value, 0, 100)
    /\ (op \in {"ColorTemp", "SetKelvin"}) =>
           ct.kelvin_ = Nearest(arg.kelvin, 1500, 15000)
    /\ (op = "new") =>
           /\ ct.kelvin_ = 2700
           /\ ColorHsv(400, 150, 150) = Hsv(360, 100, 100)
           /\ ColorTemp(999).kelvin_ = 1500
           /\ ColorTemp(20000).kelvin_ = 15000
           /\ \A h \in 0 .. 65535 :
                  ColorHsv_SetHue(hsv, h).hue_ = Nearest(h, 0, 360)
           /\ \A b \in 0 .. 255 :
                  /\ ColorHsv_SetSaturation(hsv, b).saturation_
                         = Nearest(b, 0, 100)
                  /\ ColorHsv_SetValue(hsv, b).value_ = Nearest(b, 0, 100)
           /\ \A k \in 0 .. 65535 :
                  ColorTemp_SetKelvin(ct, k).kelvin_ = Nearest(k, 1500, 15000)

C15_Witness ==
    /\ op = "ColorHsv"
    /\ arg = [hue |-> 400, saturation |-> 150, value |-> 150]
    /\ hsv = Hsv(360, 100, 100)
    /\ ct.kelvin_ = 1500

\* C16: ToRgb() maps (0,100,100) to (255,0,0), (120,100,100) to (0,255,0),
\* (240,100,100) to (0,0,255), (0,0,100) to (255,255,255) and (h,0,0) to
\* (0,0,0) for every hue h in [0, 360]; and for every saturation and value
\* in [0, 100] it maps hue 360 to what it maps hue 0 to.
C16_ToRgb ==
    /\ (op = "ToRgb") =>
           /\ (arg.hsv = Hsv(0, 100, 100)) => rgb = Rgb(255, 0, 0)
           /\ (arg.hsv = Hsv(120, 100, 100)) => rgb = Rgb(0, 255, 0)
           /\ (arg.hsv = Hsv(240, 100, 100)) => rgb = Rgb(0, 0, 255)
           /\ (arg.hsv = Hsv(0, 0, 100)) => rgb = Rgb(255, 255, 255)
           /\ (arg.hsv.saturation_ = 0 /\ arg.hsv.value_ = 0) =>
                  rgb = Rgb(0, 0, 0)
           /\ (arg.hsv.hue_ = 360) =>
                  rgb = ColorHsv_ToRgb([arg.hsv EXCEPT !.hue_ = 0])
    /\ (op = "new") =>
           /\ \A h \in 0 .. 360 :
                  ColorHsv_ToRgb(ColorHsv(h, 0, 0)) = Rgb(0, 0, 0)
           /\ \A s \in 0 .. 100, v \in 0 .. 100 :
                  ColorHsv_ToRgb(ColorHsv(360, s, v))
                      = ColorHsv_ToRgb(ColorHsv(0, s, v))

C16_Witness ==
    /\ op = "ToRgb"
    /\ arg.hsv = Hsv(360, 100, 100)
    /\ rgb = Rgb(255, 0, 0)

\* max * 100 / 255 rounded to the nearest integer (it is never half-way).
RoundPercent(max) == (max * 200 + 255) \div 510

\* What C17 says of ToHsv() of one ColorRgb and its result.
C17_Holds(in, res) ==
    LET l == ColorRgb_ToHsvLocals(in) IN
    /\ l.hue \in 0 .. 360
    /\ l.saturation \in 0 .. 100
    /\ l.value \in 0 .. 100
    /\ res = Hsv(l.hue, l.saturation, l.value)
    /\ (in = Rgb(255, 0, 0)) => res = Hsv(0, 100, 100)
    /\ (in = Rgb(0, 255, 0)) => res = Hsv(120, 100, 100)
    /\ (in = Rgb(0, 0, 255)) => res = Hsv(240, 100, 100)
    /\ (in.red = in.green /\ in.green = in.blue) =>
           res = Hsv(0, 0, RoundPercent(in.red))

\* Channel values spread over uint8_t, next to those the caller passes.
ChannelSamples == {0, 1, 2, 3, 64, 85, 127, 128, 129, 170, 253, 254, 255}

\* C17: ToHsv() maps (255,0,0) to (0,100,100), (0,255,0) to (120,100,100)
\* and (0,0,255) to (240,100,100); maps every input with red = green = blue
\* to hue 0, saturation 0 and value round(max * 100 / 255); and for every
\* input the hue, saturation and value the fixed-point code computes are
\* in [0, 360], [0, 100] and [0, 100] as they are, so that the clamping of
\* the ColorHsv constructor changes none of them.
C17_ToHsv ==
    /\ (op = "ToHsv") => C17_Holds(arg.rgb, hsv)
    /\ (op = "new") =>
           /\ \A n \in 0 .. 255 :
                  C17_Holds(Rgb(n, n, n), ColorRgb_ToHsv(Rgb(n, n, n)))
           /\ \A r \in ChannelSamples, g \in ChannelSamples,
                 b \in ChannelSamples :
                  C17_Holds(Rgb(r, g, b), ColorRgb_ToHsv(Rgb(r, g, b)))

C17_Witness ==
    /\ op = "ToHsv"
    /\ arg.rgb = Rgb(0, 0, 255)
    /\ hsv = Hsv(240, 100, 100)

\* C18: GetLuminance() returns 0.2126 * red + 0.7152 * green + 0.0722 * blue
\* rounded to the nearest integer, clamped to [0, 255]: 0 for (0, 0, 0)
\* and 255 for (255, 255, 255).
C18_Luminance ==
    (op = "GetLuminance") =>
        /\ lum = Nearest((2126 * arg.rgb.red + 7152 * arg.rgb.green
                             + 722 * arg.rgb.blue + 5000) \div 10000, 0, 255)
        /\ (arg.rgb = Rgb(0, 0, 0)) => lum = 0
        /\ (arg.rgb = Rgb(255, 255, 255)) => lum = 255

=============================================================================
